---- MODULE Spec2Model ----
(***************************************************************************)
(* Host side of the ray-traced scene viewer (src/scripts/bloom/ray).       *)
(*                                                                         *)
(* The state is the State struct of lib.rs together with the locals of     *)
(* run() that outlive one event (surface_configured, the exit request).    *)
(* One action per event the event loop dispatches: each action applies the *)
(* whole handler, every call it makes included.                            *)
(*                                                                         *)
(* Numbers: an f32 is a fixed-point integer in hundredths (0.05 is 5,      *)
(* 4.5 is 450, 1000.0 is 100000).                                          *)
(*                                                                         *)
(* The modules primitives, select, camera and bvh are used by lib.rs but   *)
(* their files are not part of the sources read here; their operations     *)
(* are modelled from the design document.                                  *)
(***************************************************************************)
EXTENDS Integers, Sequences, FiniteSets, TLC

(***************************************************************************)
(* Program constants (lib.rs 45-57).                                       *)
(***************************************************************************)
FOCAL_DISTANCE == 450
VFOV_DEG == 4000
DOF_SCALE == 5
MAX_MATERIAL_COUNT == 10
MAX_SPHERE_COUNT == 100
MAX_QUAD_COUNT == 100
MAX_TRIANGLE_COUNT == 100
MAX_OBJECT_COUNT == MAX_SPHERE_COUNT + MAX_QUAD_COUNT + MAX_TRIANGLE_COUNT
MAX_PASSES == 100

\* usize::MAX, the "no hit" sentinel of get_selected_object (lib.rs 621).
\* Any value above every valid index behaves the same; this one fits TLC.
USIZE_MAX == 2147483647

\* Limits::default().max_texture_dimension_2d (lib.rs 803, 847-853).
MAX_TEXTURE_DIMENSION_2D == 8192

\* The click test of lib.rs 612: a release within 5 pixels of the press.
CLICK_TOLERANCE == 5

\* KeyA adds this many spheres (lib.rs 558).
SPHERES_PER_KEY == 10

\* mouse_pressed_position and mouse_button_pressed have 3 slots (lib.rs 122).
MOUSE_BUTTON_SLOTS == 3

\* The guard of lib.rs 603 lets button numbers 0..3 through.
MAX_BUTTON_ACCEPTED == 3

(***************************************************************************)
(* Bounds of the exploration.                                              *)
(***************************************************************************)
\* Number of events handled in one run of Spec.
MaxSteps == 4
\* Frames rendered in a row in the runs of Spec and SpecFill.
MaxFrames == 2
\* Quantisation of uniform_random(): the values k/RngLevels, 0 <= k < RngLevels.
RngLevels == 7

(***************************************************************************)
(* Small helpers.                                                          *)
(***************************************************************************)
Min(a, b) == IF a < b THEN a ELSE b
Max(a, b) == IF a > b THEN a ELSE b
Abs(a) == IF a < 0 THEN -a ELSE a

Vec3(x, y, z) == <<x, y, z>>
VAdd(a, b) == <<a[1] + b[1], a[2] + b[2], a[3] + b[3]>>
VMin(a, b) == <<Min(a[1], b[1]), Min(a[2], b[2]), Min(a[3], b[3])>>
VMax(a, b) == <<Max(a[1], b[1]), Max(a[2], b[2]), Max(a[3], b[3])>>

(***************************************************************************)
(* The random source (helpers.rs 179-182): get_random advances the         *)
(* generator held in State.rng and returns a value in [0,1), here          *)
(* k/RngLevels.  The generator walks through every level.                  *)
(***************************************************************************)
rng_next(rng) == (rng + 1) % RngLevels
\* floor(scale * r) for the r = rng/RngLevels just drawn
Scaled(scale, rng) == (scale * rng) \div RngLevels

(***************************************************************************)
(* primitives: Sphere, Quad, Triangle and the Scene container.             *)
(***************************************************************************)
Sphere_new(center, radius, material) ==
    [center |-> center, radius |-> radius, material |-> material, selected |-> FALSE]

Quad_new(q, u, v, material) == [q |-> q, u |-> u, v |-> v, material |-> material]

Quad_default == Quad_new(Vec3(0, 0, 0), Vec3(0, 0, 0), Vec3(0, 0, 0), 0)

Triangle_default ==
    [a |-> Vec3(0, 0, 0), b |-> Vec3(0, 0, 0), c |-> Vec3(0, 0, 0), material |-> 0]

Scene_new == [materials |-> <<>>, spheres |-> <<>>, quads |-> <<>>, triangles |-> <<>>]

\* Each add appends when there is room and returns the new element's index;
\* at capacity the scene is left as it was.
add_material(scene, m) ==
    IF Len(scene.materials) < MAX_MATERIAL_COUNT
    THEN [scene EXCEPT !.materials = Append(@, m)]
    ELSE scene

\* add_sphere without the capacity check
add_sphere_unchecked(scene, sp) == [scene EXCEPT !.spheres = Append(@, sp)]

add_sphere(scene, sp) ==
    IF Len(scene.spheres) < MAX_SPHERE_COUNT
    THEN [scene EXCEPT !.spheres = Append(@, sp)]
    ELSE scene

add_quad(scene, q) ==
    IF Len(scene.quads) < MAX_QUAD_COUNT
    THEN [scene EXCEPT !.quads = Append(@, q)]
    ELSE scene

add_triangle(scene, t) ==
    IF Len(scene.triangles) < MAX_TRIANGLE_COUNT
    THEN [scene EXCEPT !.triangles = Append(@, t)]
    ELSE scene

\* index of the element the last accepted add created
last_material_index(scene) == Len(scene.materials) - 1

\* a uniformly chosen index in [0, len(materials)) from the value just drawn
get_random_material(scene, rng) == Scaled(Len(scene.materials), rng)

(***************************************************************************)
(* material: the named presets share one record shape.                     *)
(***************************************************************************)
Material_new_basic == [kind |-> "basic"]
Material_new_clear == [kind |-> "clear"]
Material_new == [kind |-> "full"]
Material_new_emissive == [kind |-> "emissive"]

(***************************************************************************)
(* bvh: bounding boxes and create_bvh.                                     *)
(*                                                                         *)
(* create_bvh is a deterministic function of the list of the live          *)
(* primitives' boxes, each with its type and index, collected spheres      *)
(* first, then quads, then triangles.  State.bvh is kept as that list: two *)
(* node arrays built from equal lists are equal.                           *)
(***************************************************************************)
AABB(lo, hi) == [min |-> lo, max |-> hi]

Sphere_bounding_box(sp) ==
    AABB(VAdd(sp.center, Vec3(-sp.radius, -sp.radius, -sp.radius)),
         VAdd(sp.center, Vec3(sp.radius, sp.radius, sp.radius)))

Quad_bounding_box(q) ==
    LET a == q.q
        b == VAdd(q.q, q.u)
        c == VAdd(q.q, q.v)
        d == VAdd(VAdd(q.q, q.u), q.v)
    IN AABB(VMin(VMin(a, b), VMin(c, d)), VMax(VMax(a, b), VMax(c, d)))

Triangle_bounding_box(t) ==
    AABB(VMin(VMin(t.a, t.b), t.c), VMax(VMax(t.a, t.b), t.c))

BVHLeaf(box, kind, index) == [box |-> box, kind |-> kind, index |-> index]

create_bvh(scene) ==
    [i \in 1..Len(scene.spheres) |->
        BVHLeaf(Sphere_bounding_box(scene.spheres[i]), "sphere", i - 1)]
    \o [i \in 1..Len(scene.quads) |->
        BVHLeaf(Quad_bounding_box(scene.quads[i]), "quad", i - 1)]
    \o [i \in 1..Len(scene.triangles) |->
        BVHLeaf(Triangle_bounding_box(scene.triangles[i]), "triangle", i - 1)]

(***************************************************************************)
(* bvh: the node array laid out from the collected list.                   *)
(*                                                                         *)
(* 2 * MAX_OBJECT_COUNT - 1 slots, an implicit binary tree: node 0 is the  *)
(* root, the children of node i are 2i+1 and 2i+2, the last                *)
(* MAX_OBJECT_COUNT slots are the leaves.  The list is split recursively:  *)
(* union box, axis of greatest extent, partition by centroid on that axis  *)
(* at the median as far as the leaf slots below each child allow.          *)
(* The boxes of the internal nodes are the unions of their children's.     *)
(* The array is kept as a function on the slots a primitive reached; every *)
(* other slot holds the degenerate box.                                    *)
(***************************************************************************)
\* f32::INFINITY, for the degenerate box
INF == 1000000000

AABB_empty == AABB(Vec3(INF, INF, INF), Vec3(-INF, -INF, -INF))

\* the union that keeps only the first box
AABB_union_first(a, b) == a

AABB_union(a, b) == AABB(VMin(a.min, b.min), VMax(a.max, b.max))

AABB_contains(outer, inner) ==
    \A k \in 1..3 : outer.min[k] <= inner.min[k] /\ inner.max[k] <= outer.max[k]

BVH_LEN == 2 * MAX_OBJECT_COUNT - 1
FIRST_LEAF == MAX_OBJECT_COUNT - 1

parent(i) == (i - 1) \div 2

\* number of leaf slots among the nodes lo..hi of one level and their descendants
RECURSIVE leaf_slots(_, _)
leaf_slots(lo, hi) ==
    IF lo > hi THEN 0
    ELSE (IF hi >= FIRST_LEAF THEN hi - Max(lo, FIRST_LEAF) + 1 ELSE 0)
         + (IF lo < FIRST_LEAF
            THEN leaf_slots(2 * lo + 1, 2 * Min(hi, FIRST_LEAF - 1) + 2)
            ELSE 0)

\* the union of the boxes of ps[lo..hi]
RECURSIVE union_range(_, _, _)
union_range(ps, lo, hi) ==
    IF lo > hi THEN AABB_empty
    ELSE IF lo = hi THEN ps[lo].box
    ELSE LET mid == (lo + hi) \div 2
         IN AABB_union(union_range(ps, lo, mid), union_range(ps, mid + 1, hi))

union_of(ps) == union_range(ps, 1, Len(ps))

\* the axis (1, 2 or 3) on which the box is longest
greatest_extent_axis(box) ==
    LET e == [k \in 1..3 |-> box.max[k] - box.min[k]]
    IN IF e[1] >= e[2] /\ e[1] >= e[3] THEN 1
       ELSE IF e[2] >= e[3] THEN 2 ELSE 3

\* twice the centroid of the box on the axis
centroid2(p, axis) == p.box.min[axis] + p.box.max[axis]

\* F applied to the value of e, which is computed once
Once(e, F(_)) == CHOOSE r \in {F(x) : x \in {e}} : TRUE

\* place of each primitive in the order by centroid on the axis; equal
\* centroids keep the order of the list
centroid_rank(ps, axis) ==
    Once([i \in 1..Len(ps) |-> centroid2(ps[i], axis)],
         LAMBDA key :
            [i \in DOMAIN key |->
                1 + Cardinality({j \in DOMAIN key :
                                   key[j] < key[i] \/ (key[j] = key[i] /\ j < i)})])

\* the primitives whose place is in lo..hi, in the order of the list
partition(ps, rank, lo, hi) ==
    Once(SelectSeq([i \in 1..Len(ps) |-> i], LAMBDA i : lo <= rank[i] /\ rank[i] <= hi),
         LAMBDA idx : [k \in 1..Len(idx) |-> ps[idx[k]]])

\* how many of n primitives go to the left child of node
left_count(node, n) ==
    LET cap_left == leaf_slots(2 * node + 1, 2 * node + 1)
        cap_right == leaf_slots(2 * node + 2, 2 * node + 2)
    IN Max(n - cap_right, Min((n + 1) \div 2, cap_left))

BVHNode(box) == [box |-> box, kind |-> "internal", index |-> 0]

EmptyNode == [box |-> AABB_empty, kind |-> "empty", index |-> 0]

node_at(nodes, i) == IF i \in DOMAIN nodes THEN nodes[i] ELSE EmptyNode

\* an internal node on top of the parts of the array below its two children
split_node(node, ps, left, right) ==
    (node :> BVHNode(AABB_union(node_at(left, 2 * node + 1).box,
                                node_at(right, 2 * node + 2).box)))
    @@ left @@ right

\* the part of the array below node, for the primitives that go there
RECURSIVE build_nodes(_, _)
build_nodes(node, list) ==
    Once(list, LAMBDA ps :
        IF ps = <<>> THEN <<>>
        ELSE IF node >= FIRST_LEAF THEN node :> ps[1]
        ELSE Once(centroid_rank(ps, greatest_extent_axis(union_of(ps))), LAMBDA rank :
                Once(left_count(node, Len(ps)), LAMBDA nl :
                    Once(build_nodes(2 * node + 1, partition(ps, rank, 1, nl)), LAMBDA left :
                        Once(build_nodes(2 * node + 2, partition(ps, rank, nl + 1, Len(ps))),
                             LAMBDA right : split_node(node, ps, left, right))))))

\* the node array create_bvh lays out from the collected list
bvh_nodes(list) == build_nodes(0, list)

(***************************************************************************)
(* camera: the pose is the orbit angles about the target, the pan offset   *)
(* of the target and the distance to it; uniforms holds the fields the     *)
(* click handler writes directly (lib.rs 624, 635, 636).                   *)
(***************************************************************************)
TWO_PI == 628
\* the minimum distance zoom clamps to
MIN_DISTANCE == 10
\* |(3,2,3) - (0,1,0)| = sqrt(19) = 4.36
INITIAL_DISTANCE == 436

Camera_look_at(distance, focal_distance, vfov_degrees, dof_scale) ==
    [yaw |-> 0, pitch |-> 0, pan |-> <<0, 0>>, distance |-> distance,
     vfov |-> vfov_degrees,
     uniforms |-> [focal_distance |-> focal_distance, dof_scale |-> dof_scale]]

Camera_orbit(camera, dx, dy) ==
    [camera EXCEPT !.yaw = (@ + dx) % TWO_PI, !.pitch = (@ + dy) % TWO_PI]

Camera_pan(camera, dx, dy) ==
    [camera EXCEPT !.pan = <<@[1] + (dx * camera.distance) \div 100,
                             @[2] + (dy * camera.distance) \div 100>>]

\* zoom without the clamp
Camera_zoom_unclamped(camera, delta) == [camera EXCEPT !.distance = @ - delta]

Camera_zoom(camera, delta) ==
    [camera EXCEPT !.distance = Max(MIN_DISTANCE, @ - delta)]

\* the snapshot handed to the GPU, recomputed from the camera
Camera_uniforms(camera) ==
    [yaw |-> camera.yaw, pitch |-> camera.pitch, pan |-> camera.pan,
     distance |-> camera.distance, vfov |-> camera.vfov,
     focal_distance |-> camera.uniforms.focal_distance,
     dof_scale |-> camera.uniforms.dof_scale]

CameraUniforms_zeroed ==
    [yaw |-> 0, pitch |-> 0, pan |-> <<0, 0>>, distance |-> 0, vfov |-> 0,
     focal_distance |-> 0, dof_scale |-> 0]

(***************************************************************************)
(* select: the selection flag of each sphere, by index; an index outside   *)
(* the array changes nothing.                                              *)
(***************************************************************************)
\* add_selection that flips the flag
add_selection_toggle(index, spheres) ==
    IF index < Len(spheres)
    THEN [spheres EXCEPT ![index + 1].selected = ~@]
    ELSE spheres

add_selection(index, spheres) ==
    IF index < Len(spheres)
    THEN [spheres EXCEPT ![index + 1].selected = TRUE]
    ELSE spheres

remove_selection(index, spheres) ==
    IF index < Len(spheres)
    THEN [spheres EXCEPT ![index + 1].selected = FALSE]
    ELSE spheres

clear_all_selections(spheres) ==
    [i \in 1..Len(spheres) |-> [spheres[i] EXCEPT !.selected = FALSE]]

\* The outcomes of get_selected_object(mouse_position, uniforms, spheres): the
\* index of a sphere of the array with its distance, or the sentinel.
PickDistances == {250}
\* picking is explored for hits on these spheres, and for no hit
PickableSpheres == {0, 1}

get_selected_object_results(spheres) ==
    {<<USIZE_MAX, 0>>}
    \cup {<<i, d>> : i \in {j \in PickableSpheres : j < Len(spheres)}, d \in PickDistances}

(***************************************************************************)
(* Uniforms (lib.rs 63-91).                                                *)
(***************************************************************************)
Uniforms_new == [camera |-> CameraUniforms_zeroed, frame_num |-> 0, width |-> 0, height |-> 0]

Uniforms_tick(u) == [u EXCEPT !.frame_num = @ + 1]

Uniforms_update(u, width, height) == [u EXCEPT !.width = width, !.height = height]

Uniforms_reset_samples(u) == [u EXCEPT !.frame_num = 0]

\* no frame was submitted since the last sample reset
NO_FRAME == 0 - 1

(***************************************************************************)
(* The state.                                                              *)
(***************************************************************************)
VARIABLES
    size,                    \* State.size: <<width, height>>
    config,                  \* State.config width and height
    surface,                 \* what surface.configure was last called with
    uniforms,                \* State.uniforms
    scene,                   \* State.scene
    bvh,                     \* State.bvh
    camera,                  \* State.camera
    mouse_position,          \* State.mouse_position
    mouse_pressed_position,  \* State.mouse_pressed_position, by button
    mouse_button_pressed,    \* State.mouse_button_pressed, by button
    ctrl_pressed,            \* State.ctrl_pressed
    rng,                     \* State.rng
    buffers,                 \* contents of the six GPU buffers the shader reads
    queue,                   \* State.queue: writes issued and not yet submitted
    surface_configured,      \* run(): surface_configured
    exited,                  \* run(): control_flow.exit() was called
    panicked,                \* the thread panicked (an index out of bounds)
    event,                   \* the event handled last
    calls,                   \* the calls the last handler made, in order
    picked,                  \* the arguments and result of its get_selected_object call
    frame_bind_group,        \* index of the display bind group of the last frame
                             \* submitted since the last sample reset, -1 if none
    steps                    \* number of events handled

vars == <<size, config, surface, uniforms, scene, bvh, camera, mouse_position,
          mouse_pressed_position, mouse_button_pressed, ctrl_pressed, rng, buffers,
          queue, surface_configured, exited, panicked, event, calls, picked,
          frame_bind_group, steps>>

\* the program state as one value, so that a handler is a function of it
Self ==
    [size |-> size, config |-> config, surface |-> surface, uniforms |-> uniforms,
     scene |-> scene, bvh |-> bvh, camera |-> camera, mouse_position |-> mouse_position,
     mouse_pressed_position |-> mouse_pressed_position,
     mouse_button_pressed |-> mouse_button_pressed, ctrl_pressed |-> ctrl_pressed,
     rng |-> rng, buffers |-> buffers, queue |-> queue,
     surface_configured |-> surface_configured, exited |-> exited,
     panicked |-> panicked, calls |-> calls, picked |-> picked,
     frame_bind_group |-> frame_bind_group]

Commit(s) ==
    /\ size' = s.size
    /\ config' = s.config
    /\ surface' = s.surface
    /\ uniforms' = s.uniforms
    /\ scene' = s.scene
    /\ bvh' = s.bvh
    /\ camera' = s.camera
    /\ mouse_position' = s.mouse_position
    /\ mouse_pressed_position' = s.mouse_pressed_position
    /\ mouse_button_pressed' = s.mouse_button_pressed
    /\ ctrl_pressed' = s.ctrl_pressed
    /\ rng' = s.rng
    /\ buffers' = s.buffers
    /\ queue' = s.queue
    /\ surface_configured' = s.surface_configured
    /\ exited' = s.exited
    /\ panicked' = s.panicked
    /\ calls' = s.calls
    /\ picked' = s.picked
    /\ frame_bind_group' = s.frame_bind_group

Call(op, arg) == [op |-> op, arg |-> arg]
Log(s, op, arg) == [s EXCEPT !.calls = Append(@, Call(op, arg))]
CountCalls(log, op) == Cardinality({i \in 1..Len(log) : log[i].op = op})

NoPick ==
    [called |-> FALSE, hit |-> 0, dist |-> 0, mouse |-> <<0, 0>>,
     uniforms |-> Uniforms_new, current |-> CameraUniforms_zeroed,
     width |-> 0, height |-> 0]

(***************************************************************************)
(* State::new (lib.rs 140-521).                                            *)
(***************************************************************************)
\* the scene of State::new with the quad given the material count, not the index
NewScene_quad_material_count ==
    LET s1 == add_material(Scene_new, Material_new_basic)
        s2 == add_sphere(s1, Sphere_new(Vec3(0, -100000, -100), 100000, 1))
        s3 == add_sphere(s2, Sphere_new(Vec3(200, 100, -200), 100, 0))
        s4 == add_material(s3, Material_new_clear)
        s5 == add_sphere(s4, Sphere_new(Vec3(-200, 100, 0), 100, last_material_index(s4)))
        s6 == add_material(s5, Material_new)
        s7 == add_sphere(s6, Sphere_new(Vec3(0, 300, 0), 50, last_material_index(s6)))
        s8 == add_material(s7, Material_new)
        s9 == add_sphere(s8, Sphere_new(Vec3(0, 300, -150), 50, last_material_index(s8)))
        s10 == add_material(s9, Material_new_emissive)
        s11 == add_quad(s10, Quad_new(Vec3(-300, 400, -300), Vec3(600, 0, 0),
                                      Vec3(0, 0, 600), Len(s10.materials)))
        s12 == add_quad(s11, Quad_default)
    IN add_triangle(s12, Triangle_default)

\* the scene of lib.rs 222-291
NewScene ==
    LET s1 == add_material(Scene_new, Material_new_basic)
        s2 == add_sphere(s1, Sphere_new(Vec3(0, -100000, -100), 100000, 1))
        s3 == add_sphere(s2, Sphere_new(Vec3(200, 100, -200), 100, 0))
        s4 == add_material(s3, Material_new_clear)
        s5 == add_sphere(s4, Sphere_new(Vec3(-200, 100, 0), 100, last_material_index(s4)))
        s6 == add_material(s5, Material_new)
        s7 == add_sphere(s6, Sphere_new(Vec3(0, 300, 0), 50, last_material_index(s6)))
        s8 == add_material(s7, Material_new)
        s9 == add_sphere(s8, Sphere_new(Vec3(0, 300, -150), 50, last_material_index(s8)))
        s10 == add_material(s9, Material_new_emissive)
        s11 == add_quad(s10, Quad_new(Vec3(-300, 400, -300), Vec3(600, 0, 0),
                                      Vec3(0, 0, 600), last_material_index(s10)))
        s12 == add_quad(s11, Quad_default)
    IN add_triangle(s12, Triangle_default)

EmptyBuffers ==
    [uniforms_buffer |-> Uniforms_new, material_buffer |-> <<>>, sphere_buffer |-> <<>>,
     quad_buffer |-> <<>>, triangle_buffer |-> <<>>, bvh_buffer |-> <<>>]

State_new(window_size, seed) ==
    [size |-> window_size,
     config |-> window_size,
     surface |-> [configured |-> FALSE, width |-> 0, height |-> 0],
     uniforms |-> Uniforms_new,
     scene |-> NewScene,
     bvh |-> create_bvh(NewScene),
     camera |-> Camera_look_at(INITIAL_DISTANCE, FOCAL_DISTANCE, VFOV_DEG, DOF_SCALE),
     mouse_position |-> <<0, 0>>,
     mouse_pressed_position |-> [b \in 0..(MOUSE_BUTTON_SLOTS - 1) |-> <<0, 0>>],
     mouse_button_pressed |-> [b \in 0..(MOUSE_BUTTON_SLOTS - 1) |-> FALSE],
     ctrl_pressed |-> FALSE,
     rng |-> seed,
     buffers |-> EmptyBuffers,
     queue |-> <<>>,
     surface_configured |-> FALSE,
     exited |-> FALSE,
     panicked |-> FALSE,
     calls |-> <<Call("create_bvh", 0)>>,
     picked |-> NoPick,
     frame_bind_group |-> NO_FRAME]

(***************************************************************************)
(* State::rebuild_scene (lib.rs 523-525) and State::resize (531-540).      *)
(***************************************************************************)
rebuild_scene(s) == Log([s EXCEPT !.bvh = create_bvh(s.scene)], "create_bvh", 0)

reset_samples(s) ==
    Log([s EXCEPT !.uniforms = Uniforms_reset_samples(@),
                  !.frame_bind_group = NO_FRAME], "reset_samples", 0)

resize(s, new_size) ==
    IF new_size[1] > 0 /\ new_size[2] > 0
    THEN reset_samples(
           [s EXCEPT !.size = new_size,
                     !.config = new_size,
                     !.surface = [configured |-> TRUE, width |-> new_size[1],
                                  height |-> new_size[2]],
                     !.uniforms = Uniforms_update(@, new_size[1], new_size[2])])
    ELSE s

(***************************************************************************)
(* State::input (lib.rs 542-587).                                          *)
(***************************************************************************)
input_CursorMoved(s, position) == [s EXCEPT !.mouse_position = position]

\* one turn of the loop of lib.rs 558-568: three draws for the centre, one for
\* the material, then the add
AddRandomSphere(s) ==
    LET r1 == rng_next(s.rng)
        r2 == rng_next(r1)
        r3 == rng_next(r2)
        r4 == rng_next(r3)
        sp == Sphere_new(Vec3(Scaled(1000, r1) - 500, Scaled(500, r2),
                              Scaled(1000, r3) - 500),
                         20, get_random_material(s.scene, r4))
        sc == add_sphere(s.scene, sp)
    IN Log([s EXCEPT !.rng = r4, !.scene = sc],
           "add_sphere", IF sc = s.scene THEN 0 ELSE 1)

RECURSIVE AddRandomSpheres(_, _)
AddRandomSpheres(s, n) ==
    IF n = 0 THEN s ELSE AddRandomSpheres(AddRandomSphere(s), n - 1)

\* KeyA with the rebuild inside the loop
RECURSIVE AddAndRebuild(_, _)
AddAndRebuild(s, n) ==
    IF n = 0 THEN s ELSE AddAndRebuild(rebuild_scene(AddRandomSphere(s)), n - 1)

input_KeyA_rebuild_each(s) == reset_samples(AddAndRebuild(s, SPHERES_PER_KEY))

\* KeyA with the rebuild placed before the loop
input_KeyA_rebuild_first(s) ==
    reset_samples(AddRandomSpheres(rebuild_scene(s), SPHERES_PER_KEY))

input_KeyA(s) == reset_samples(rebuild_scene(AddRandomSpheres(s, SPHERES_PER_KEY)))

input_ControlLeft(s, pressed) == [s EXCEPT !.ctrl_pressed = pressed]

(***************************************************************************)
(* State::mouse_input (lib.rs 589-675).                                    *)
(***************************************************************************)
\* MouseScrollDelta::PixelDelta: 0.001 * y; LineDelta: y * 0.1 (lib.rs 592-595)
WheelDelta(delta) ==
    IF delta[1] = "PixelDelta" THEN delta[2] \div 10 ELSE delta[2] * 10

mouse_input_MouseWheel(s, delta) ==
    reset_samples([s EXCEPT !.camera = Camera_zoom(@, WheelDelta(delta))])

\* the click test on x alone
ClickTest_x_only(pos, last_pos) == Abs(pos[1] - last_pos[1]) < CLICK_TOLERANCE

\* lib.rs 612
ClickTest(pos, last_pos) ==
    /\ Abs(pos[1] - last_pos[1]) < CLICK_TOLERANCE
    /\ Abs(pos[2] - last_pos[2]) < CLICK_TOLERANCE

\* lib.rs 615-619: the call of get_selected_object, with what it was given
Pick(s, pick) ==
    Log([s EXCEPT !.picked =
            [called |-> TRUE, hit |-> pick[1], dist |-> pick[2],
             mouse |-> s.mouse_position, uniforms |-> s.uniforms,
             current |-> Camera_uniforms(s.camera),
             width |-> s.config[1], height |-> s.config[2]]],
        "get_selected_object", 0)

ClearAll(s) ==
    Log([s EXCEPT !.scene.spheres = clear_all_selections(@)], "clear_all_selections", 0)

\* the no-hit path without the test of the button
ClickNoHit_any_button(s, button) == [ClearAll(s) EXCEPT !.camera.uniforms.dof_scale = 0]

\* lib.rs 621-625: nothing was hit
ClickNoHit(s, button) ==
    IF button = 0
    THEN [ClearAll(s) EXCEPT !.camera.uniforms.dof_scale = 0]
    ELSE ClearAll(s)

\* the hit path whose left button does not look at Ctrl
ClickHit_left_focus_always(s, button, hit_object, dist_to_object) ==
    CASE button = 0 ->
           [s EXCEPT !.camera.uniforms.focal_distance = dist_to_object,
                     !.camera.uniforms.dof_scale = DOF_SCALE]
      [] button = 1 ->
           IF s.ctrl_pressed
           THEN Log([s EXCEPT !.scene.spheres = remove_selection(hit_object, @)],
                    "remove_selection", hit_object)
           ELSE s
      [] OTHER ->
           IF s.ctrl_pressed THEN ClearAll(s) ELSE s

\* lib.rs 626-653: sphere hit_object was hit at distance dist_to_object
ClickHit(s, button, hit_object, dist_to_object) ==
    CASE button = 0 ->
           IF s.ctrl_pressed
           THEN Log([s EXCEPT !.scene.spheres = add_selection(hit_object, @)],
                    "add_selection", hit_object)
           ELSE [s EXCEPT !.camera.uniforms.focal_distance = dist_to_object,
                          !.camera.uniforms.dof_scale = DOF_SCALE]
      [] button = 1 ->
           IF s.ctrl_pressed
           THEN Log([s EXCEPT !.scene.spheres = remove_selection(hit_object, @)],
                    "remove_selection", hit_object)
           ELSE s
      [] OTHER ->
           IF s.ctrl_pressed THEN ClearAll(s) ELSE s

\* lib.rs 615-654: the release passed the click test; pick is what
\* get_selected_object returns
Click(s, button, pick) ==
    LET s1 == Pick(s, pick)
        hit_object == pick[1]
        dist_to_object == pick[2]
    IN reset_samples(IF hit_object = USIZE_MAX
                     THEN ClickNoHit(s1, button)
                     ELSE ClickHit(s1, button, hit_object, dist_to_object))

mouse_input_Button(s, button, pressed, pick) ==
    IF button > MAX_BUTTON_ACCEPTED
    THEN s
    ELSE IF button >= MOUSE_BUTTON_SLOTS
    THEN [s EXCEPT !.panicked = TRUE]
    ELSE LET s1 == [s EXCEPT !.mouse_button_pressed[button] = pressed]
         IN IF pressed
            THEN [s1 EXCEPT !.mouse_pressed_position[button] = s.mouse_position]
            ELSE IF ClickTest(s1.mouse_position, s1.mouse_pressed_position[button])
                 THEN Click(s1, button, pick)
                 ELSE s1

\* MouseMotion whose middle-button branch does not reset the samples
mouse_input_MouseMotion_zoom_no_reset(s, x, y) ==
    LET dx == -x
        dy == y
    IN IF s.mouse_button_pressed[0]
       THEN reset_samples([s EXCEPT !.camera = Camera_orbit(@, dx, dy)])
       ELSE IF s.mouse_button_pressed[1]
       THEN reset_samples([s EXCEPT !.camera = Camera_pan(@, dx, dy)])
       ELSE IF s.mouse_button_pressed[2]
       THEN [s EXCEPT !.camera = Camera_zoom(@, -dy)]
       ELSE s

\* MouseMotion whose last branch does not test the middle button
mouse_input_MouseMotion_else_zoom(s, x, y) ==
    LET dx == -x
        dy == y
    IN IF s.mouse_button_pressed[0]
       THEN reset_samples([s EXCEPT !.camera = Camera_orbit(@, dx, dy)])
       ELSE IF s.mouse_button_pressed[1]
       THEN reset_samples([s EXCEPT !.camera = Camera_pan(@, dx, dy)])
       ELSE reset_samples([s EXCEPT !.camera = Camera_zoom(@, -dy)])

\* lib.rs 659-672; the deltas arrive in pixels, dx = -0.01 * x and dy = 0.01 * y
mouse_input_MouseMotion(s, x, y) ==
    LET dx == -x
        dy == y
    IN IF s.mouse_button_pressed[0]
       THEN reset_samples([s EXCEPT !.camera = Camera_orbit(@, dx, dy)])
       ELSE IF s.mouse_button_pressed[1]
       THEN reset_samples([s EXCEPT !.camera = Camera_pan(@, dx, dy)])
       ELSE IF s.mouse_button_pressed[2]
       THEN reset_samples([s EXCEPT !.camera = Camera_zoom(@, -dy)])
       ELSE s

(***************************************************************************)
(* State::render (lib.rs 679-782), native build.                           *)
(*                                                                         *)
(* queue.write_buffer stages a write; the staged writes reach the buffers  *)
(* at the next queue.submit, in the order issued.  Only the last staged    *)
(* write of a buffer is kept: an earlier one is overwritten whole by it.   *)
(***************************************************************************)
write_buffer(s, buffer, data) ==
    Log([s EXCEPT !.queue = Append(SelectSeq(@, LAMBDA w : w.buffer # buffer),
                                   [buffer |-> buffer, data |-> data])],
        buffer, 0)

RECURSIVE ApplyWrites(_, _)
ApplyWrites(bufs, q) ==
    IF q = <<>> THEN bufs
    ELSE ApplyWrites([bufs EXCEPT ![Head(q).buffer] = Head(q).data], Tail(q))

queue_submit(s) ==
    Log([s EXCEPT !.buffers = ApplyWrites(@, s.queue), !.queue = <<>>], "submit", 0)

\* the number of display bind groups (helpers.rs 37): the second binds the
\* two sample textures the other way round
DISPLAY_BIND_GROUPS == 2

\* lib.rs 769: the index into display_bind_groups
bind_group_index(u) == u.frame_num % DISPLAY_BIND_GROUPS

\* lib.rs 767-771
set_bind_group(s) ==
    Log([s EXCEPT !.frame_bind_group = bind_group_index(s.uniforms)],
        "set_bind_group", bind_group_index(s.uniforms))

SurfaceResults == {"Ok", "Timeout", "Lost", "Outdated", "OutOfMemory"}

\* what render returns, given what get_current_texture returns
render_result(s, surface_result) ==
    IF s.uniforms.frame_num > MAX_PASSES THEN "Ok" ELSE surface_result

\* render with the BVH written after the submit
render_bvh_after_submit(s, surface_result) ==
    IF s.uniforms.frame_num > MAX_PASSES
    THEN s
    ELSE LET s1 == [s EXCEPT !.uniforms.camera = Camera_uniforms(s.camera)]
             s2 == Log([s1 EXCEPT !.uniforms = Uniforms_tick(@)], "tick", 0)
             s3 == write_buffer(s2, "uniforms_buffer", s2.uniforms)
             s4 == write_buffer(s3, "material_buffer", s3.scene.materials)
             s5 == write_buffer(s4, "sphere_buffer", s4.scene.spheres)
             s6 == write_buffer(s5, "quad_buffer", s5.scene.quads)
             s7 == write_buffer(s6, "triangle_buffer", s6.scene.triangles)
         IN IF surface_result = "Ok"
            THEN write_buffer(queue_submit(set_bind_group(s7)), "bvh_buffer", s7.bvh)
            ELSE write_buffer(s7, "bvh_buffer", s7.bvh)

render(s, surface_result) ==
    IF s.uniforms.frame_num > MAX_PASSES
    THEN s
    ELSE LET s1 == [s EXCEPT !.uniforms.camera = Camera_uniforms(s.camera)]
             s2 == Log([s1 EXCEPT !.uniforms = Uniforms_tick(@)], "tick", 0)
             s3 == write_buffer(s2, "uniforms_buffer", s2.uniforms)
             s4 == write_buffer(s3, "material_buffer", s3.scene.materials)
             s5 == write_buffer(s4, "sphere_buffer", s4.scene.spheres)
             s6 == write_buffer(s5, "quad_buffer", s5.scene.quads)
             s7 == write_buffer(s6, "triangle_buffer", s6.scene.triangles)
             s8 == write_buffer(s7, "bvh_buffer", s7.bvh)
         IN IF surface_result = "Ok" THEN queue_submit(set_bind_group(s8)) ELSE s8

(***************************************************************************)
(* run (lib.rs 786-893): the event loop's dispatch.                        *)
(***************************************************************************)
\* WindowEvent::Resized (lib.rs 845-857)
run_Resized(s, physical_size) ==
    LET clamped == <<Min(physical_size[1], MAX_TEXTURE_DIMENSION_2D),
                     Min(physical_size[2], MAX_TEXTURE_DIMENSION_2D)>>
    IN resize([s EXCEPT !.surface_configured = TRUE], clamped)

\* WindowEvent::RedrawRequested (lib.rs 858-884)
run_RedrawRequested(s, surface_result) ==
    IF ~s.surface_configured
    THEN s
    ELSE LET r == render_result(s, surface_result)
             s1 == render(s, surface_result)
         IN CASE r \in {"Lost", "Outdated"} -> resize(s1, s1.size)
              [] r = "OutOfMemory" -> [s1 EXCEPT !.exited = TRUE]
              [] OTHER -> s1

(***************************************************************************)
(* The events explored.                                                    *)
(***************************************************************************)
InitialSizes == {<<800, 600>>}
Seeds == {0}
ResizeSizes == {<<0, 0>>, <<9000, 480>>}
CursorPositions == {<<4, 0>>, <<4, 5>>, <<9, 0>>}
WheelDeltas == {<<"PixelDelta", 100>>, <<"LineDelta", -1>>}
MotionDeltas == {<<3, 2>>, <<0, -500>>}
Buttons == 0..(MAX_BUTTON_ACCEPTED + 1)

Ev(kind, button) == [kind |-> kind, button |-> button]

Running == ~exited /\ ~panicked

\* the state a handler starts from: the record of the previous handler's calls is dropped
Begin == [Self EXCEPT !.calls = <<>>, !.picked = NoPick]

Handled(ev, s) == Commit(s) /\ event' = ev

Init ==
    \E window_size \in InitialSizes, seed \in Seeds :
        LET s == State_new(window_size, seed)
        IN /\ size = s.size
           /\ config = s.config
           /\ surface = s.surface
           /\ uniforms = s.uniforms
           /\ scene = s.scene
           /\ bvh = s.bvh
           /\ camera = s.camera
           /\ mouse_position = s.mouse_position
           /\ mouse_pressed_position = s.mouse_pressed_position
           /\ mouse_button_pressed = s.mouse_button_pressed
           /\ ctrl_pressed = s.ctrl_pressed
           /\ rng = s.rng
           /\ buffers = s.buffers
           /\ queue = s.queue
           /\ surface_configured = s.surface_configured
           /\ exited = s.exited
           /\ panicked = s.panicked
           /\ calls = s.calls
           /\ picked = s.picked
           /\ frame_bind_group = s.frame_bind_group
           /\ event = Ev("new", -1)
           /\ steps = 0

\* the handlers, as steps of the event loop
HandleResized(sizes) ==
    \E physical_size \in sizes :
        Handled(Ev("Resized", -1), run_Resized(Begin, physical_size))

HandleRedrawRequested(results) ==
    \E surface_result \in results :
        Handled(Ev("RedrawRequested", -1), run_RedrawRequested(Begin, surface_result))

HandleCursorMoved ==
    \E position \in CursorPositions :
        Handled(Ev("CursorMoved", -1), input_CursorMoved(Begin, position))

HandleKeyA == Handled(Ev("KeyA", -1), input_KeyA(Begin))

HandleControlLeft ==
    \E pressed \in BOOLEAN :
        Handled(Ev("ControlLeft", -1), input_ControlLeft(Begin, pressed))

HandleMouseWheel ==
    \E delta \in WheelDeltas :
        Handled(Ev("MouseWheel", -1), mouse_input_MouseWheel(Begin, delta))

HandleButton ==
    \E button \in Buttons, pressed \in BOOLEAN :
        \E pick \in get_selected_object_results(scene.spheres) :
            Handled(Ev("Button", button),
                    mouse_input_Button(Begin, button, pressed, pick))

HandleMouseMotion ==
    \E delta \in MotionDeltas :
        Handled(Ev("MouseMotion", -1),
                mouse_input_MouseMotion(Begin, delta[1], delta[2]))

(***************************************************************************)
(* Spec: every event, in runs of at most MaxSteps events.                  *)
(***************************************************************************)
Bounded == Running /\ steps < MaxSteps /\ steps' = steps + 1

Resized == Bounded /\ HandleResized(ResizeSizes)
RedrawRequested == Bounded /\ HandleRedrawRequested(SurfaceResults)
CursorMoved == Bounded /\ HandleCursorMoved
KeyA == Bounded /\ HandleKeyA
ControlLeft == Bounded /\ HandleControlLeft
MouseWheel == Bounded /\ HandleMouseWheel
Button == Bounded /\ HandleButton
MouseMotion == Bounded /\ HandleMouseMotion

Next ==
    \/ Resized
    \/ RedrawRequested
    \/ CursorMoved
    \/ KeyA
    \/ ControlLeft
    \/ MouseWheel
    \/ Button
    \/ MouseMotion

Spec == Init /\ [][Next]_vars

(***************************************************************************)
(* SpecFill: KeyA pressed until the sphere array is full and past that,    *)
(* with resizes and redraws in between; at most MaxFrames frames are       *)
(* rendered in a row.                                                      *)
(***************************************************************************)
FillResized == Running /\ UNCHANGED steps /\ HandleResized({<<640, 480>>})
FillKeyA == Running /\ UNCHANGED steps /\ HandleKeyA
FillRedrawRequested ==
    /\ Running
    /\ uniforms.frame_num < MaxFrames
    /\ UNCHANGED steps
    /\ HandleRedrawRequested({"Ok"})

NextFill ==
    \/ FillResized
    \/ FillKeyA
    \/ FillRedrawRequested

SpecFill == Init /\ [][NextFill]_vars

(***************************************************************************)
(* SpecPasses: the surface is configured and frames are requested one      *)
(* after the other, each presented, until render stops rendering; a        *)
(* mouse wheel restarts the accumulation.                                  *)
(***************************************************************************)
PassResized == Running /\ UNCHANGED steps /\ HandleResized({<<640, 480>>})
PassRedrawRequested == Running /\ UNCHANGED steps /\ HandleRedrawRequested({"Ok"})
PassMouseWheel ==
    /\ Running
    /\ camera.distance = INITIAL_DISTANCE
    /\ UNCHANGED steps
    /\ HandleMouseWheel

NextPasses ==
    \/ PassResized
    \/ PassRedrawRequested
    \/ PassMouseWheel

SpecPasses == Init /\ [][NextPasses]_vars

(***************************************************************************)
(* SpecSelect: Ctrl and the mouse buttons alone, pressed and released in   *)
(* any order and without end, the cursor resting where it started.         *)
(***************************************************************************)
SelectControlLeft == Running /\ UNCHANGED steps /\ HandleControlLeft
SelectButton == Running /\ UNCHANGED steps /\ HandleButton

NextSelect ==
    \/ SelectControlLeft
    \/ SelectButton

SpecSelect == Init /\ [][NextSelect]_vars

(***************************************************************************)
(* Claims.                                                                 *)
(***************************************************************************)
\* the scene the GPU buffers hold
SceneOf(bufs) ==
    [materials |-> bufs.material_buffer, spheres |-> bufs.sphere_buffer,
     quads |-> bufs.quad_buffer, triangles |-> bufs.triangle_buffer]

\* the last handler was a render that reached queue.submit
Submitted == event.kind = "RedrawRequested" /\ CountCalls(calls, "submit") = 1

AcceptedAdds(log) ==
    Cardinality({i \in 1..Len(log) : log[i].op = "add_sphere" /\ log[i].arg = 1})

\* C1: State.bvh is always the BVH of the scene's current primitive lists, and
\* so is the BVH the GPU holds with respect to the sphere, quad and triangle
\* arrays it holds; in the KeyA step the 10 add_sphere calls all come before
\* the one create_bvh call.
C1_BvhCurrent ==
    /\ bvh = create_bvh(scene)
    /\ buffers.bvh_buffer = create_bvh(SceneOf(buffers))
    /\ event.kind = "KeyA" =>
         /\ CountCalls(calls, "add_sphere") = SPHERES_PER_KEY
         /\ \A i, j \in 1..Len(calls) :
              calls[i].op = "add_sphere" /\ calls[j].op = "create_bvh" => i < j

C1_Witness ==
    /\ Submitted
    /\ Len(buffers.sphere_buffer) = Len(NewScene.spheres) + SPHERES_PER_KEY
    /\ Len(buffers.bvh_buffer) =
         Len(buffers.sphere_buffer) + Len(buffers.quad_buffer) + Len(buffers.triangle_buffer)

\* C2: the sphere array never holds more than MAX_SPHERE_COUNT spheres; a KeyA
\* press adds as many spheres as there is room for, at most 10, keeps the
\* spheres already there and changes no other list of the scene.
C2_Capacity ==
    /\ [](Len(scene.spheres) <= MAX_SPHERE_COUNT)
    /\ [][event'.kind = "KeyA" =>
            /\ AcceptedAdds(calls') = Min(SPHERES_PER_KEY, MAX_SPHERE_COUNT - Len(scene.spheres))
            /\ Len(scene'.spheres) = Len(scene.spheres) + AcceptedAdds(calls')
            /\ SubSeq(scene'.spheres, 1, Len(scene.spheres)) = scene.spheres
            /\ scene'.materials = scene.materials
            /\ scene'.quads = scene.quads
            /\ scene'.triangles = scene.triangles]_vars

C2_Witness ==
    /\ event.kind = "KeyA"
    /\ Len(scene.spheres) = MAX_SPHERE_COUNT
    /\ AcceptedAdds(calls) = 5
    /\ CountCalls(calls, "add_sphere") = SPHERES_PER_KEY

MaterialsValid(sc) ==
    /\ \A i \in 1..Len(sc.spheres) : sc.spheres[i].material < Len(sc.materials)
    /\ \A i \in 1..Len(sc.quads) : sc.quads[i].material < Len(sc.materials)
    /\ \A i \in 1..Len(sc.triangles) : sc.triangles[i].material < Len(sc.materials)

\* C3: in every state (after State::new, after every rebuild, at every render)
\* every sphere, quad and triangle of the scene has a material index below
\* the number of materials, and so has every primitive the GPU buffers hold.
C3_MaterialIndex ==
    /\ MaterialsValid(scene)
    /\ Submitted => MaterialsValid(SceneOf(buffers))

C3_Witness ==
    /\ event.kind = "KeyA"
    /\ scene.spheres[1].material = 1
    /\ \E i \in (Len(NewScene.spheres) + 1)..Len(scene.spheres) :
         scene.spheres[i].material = Len(scene.materials) - 1
    /\ \E i \in (Len(NewScene.spheres) + 1)..Len(scene.spheres) :
         scene.spheres[i].material = 0

AnyButtonHeld == \E b \in DOMAIN mouse_button_pressed : mouse_button_pressed[b]

\* C4: after a mouse-wheel event, and after a mouse-motion event handled
\* while the left, right or middle button is held, frame_num is 0.
C4_CameraMoveResets ==
    (\/ event.kind = "MouseWheel"
     \/ event.kind = "MouseMotion" /\ AnyButtonHeld)
    => uniforms.frame_num = 0

C4_Witness ==
    /\ event.kind = "MouseMotion"
    /\ mouse_button_pressed[2] /\ ~mouse_button_pressed[0] /\ ~mouse_button_pressed[1]
    /\ buffers.uniforms_buffer.frame_num >= 1
    /\ uniforms.frame_num = 0

\* C5 (as claimed): whenever the click handler calls get_selected_object, the
\* Uniforms it passes hold the camera's current snapshot and the current
\* width and height.
C5_PickUsesCurrentCamera ==
    picked.called =>
        /\ picked.uniforms.camera = picked.current
        /\ picked.uniforms.width = picked.width
        /\ picked.uniforms.height = picked.height

Selected(spheres) == {i \in 1..Len(spheres) : spheres[i].selected}

\* C6: on every sphere array the program reaches and every index, in range or
\* not: add_selection twice gives what add_selection once gives,
\* remove_selection of an unselected sphere changes nothing, and
\* clear_all_selections leaves no sphere selected.
C6_SelectionIdempotent ==
    LET arr == scene.spheres
    IN /\ \A i \in (0..Len(arr)) \cup {USIZE_MAX} :
            /\ add_selection(i, add_selection(i, arr)) = add_selection(i, arr)
            /\ Selected(add_selection(i, arr)) =
                 Selected(arr) \cup (IF i < Len(arr) THEN {i + 1} ELSE {})
            /\ (i < Len(arr) => ~arr[i + 1].selected) => remove_selection(i, arr) = arr
            /\ remove_selection(i, remove_selection(i, arr)) = remove_selection(i, arr)
       /\ Selected(clear_all_selections(arr)) = {}

C6_Witness ==
    /\ CountCalls(calls, "add_selection") = 1
    /\ Selected(scene.spheres) = {picked.hit + 1}
    /\ add_selection(picked.hit, scene.spheres) = scene.spheres

\* C7: a click for which picking reports no hit clears every selection flag
\* and changes nothing else of the spheres, sets dof_scale to 0 when the button
\* is the left one and leaves the camera alone otherwise, and calls neither
\* add_selection nor remove_selection; no call gets the sentinel as an index.
C7_NoHit ==
    [][(picked'.called /\ picked'.hit = USIZE_MAX) =>
          /\ Selected(scene'.spheres) = {}
          /\ scene'.spheres = clear_all_selections(scene.spheres)
          /\ event'.button = 0 => camera' = [camera EXCEPT !.uniforms.dof_scale = 0]
          /\ event'.button # 0 => camera' = camera
          /\ CountCalls(calls', "add_selection") = 0
          /\ CountCalls(calls', "remove_selection") = 0
          /\ \A k \in 1..Len(calls') : calls'[k].arg # USIZE_MAX]_vars

C7_Witness ==
    /\ picked.called
    /\ picked.hit = USIZE_MAX
    /\ event.button = 0
    /\ ctrl_pressed
    /\ camera.uniforms.dof_scale = 0
    /\ CountCalls(calls, "clear_all_selections") = 1

\* C8: create_bvh is called once in State::new and once in every KeyA step;
\* every other step calls it not at all and leaves State.bvh as it was.
C8_BvhBuilds ==
    /\ CountCalls(calls, "create_bvh") = 1
    /\ [][/\ event'.kind = "KeyA" => CountCalls(calls', "create_bvh") = 1
          /\ event'.kind # "KeyA" =>
               CountCalls(calls', "create_bvh") = 0 /\ bvh' = bvh]_vars

C8_Witness ==
    /\ event.kind = "KeyA"
    /\ CountCalls(calls, "create_bvh") = 1
    /\ CountCalls(calls, "add_sphere") = SPHERES_PER_KEY
    /\ Len(bvh) = Len(NewScene.spheres) + SPHERES_PER_KEY + Len(scene.quads) + Len(scene.triangles)

BufferNames ==
    {"uniforms_buffer", "material_buffer", "sphere_buffer", "quad_buffer",
     "triangle_buffer", "bvh_buffer"}

\* C9: in a render that submits, each of the six buffers is written once, before
\* the submit; nothing stays staged, and the buffers then hold the uniforms,
\* materials, spheres, quads, triangles and BVH of the state as it is.
C9_ConsistentSnapshot ==
    Submitted =>
        /\ \A b \in BufferNames : CountCalls(calls, b) = 1
        /\ \A i, j \in 1..Len(calls) :
             calls[i].op \in BufferNames /\ calls[j].op = "submit" => i < j
        /\ queue = <<>>
        /\ buffers = [uniforms_buffer |-> uniforms,
                      material_buffer |-> scene.materials,
                      sphere_buffer |-> scene.spheres,
                      quad_buffer |-> scene.quads,
                      triangle_buffer |-> scene.triangles,
                      bvh_buffer |-> bvh]

C9_Witness ==
    /\ Submitted
    /\ uniforms.frame_num = 1
    /\ camera.distance # INITIAL_DISTANCE
    /\ buffers.uniforms_buffer.camera.distance = camera.distance
    /\ buffers.uniforms_buffer.frame_num = 1

\* C10: a step changes the camera only if it handles a mouse wheel, a mouse
\* motion with a button held, or a button release that called
\* get_selected_object, and a button event changes at most focal_distance and
\* dof_scale; CursorMoved, KeyA, ControlLeft, Resized and RedrawRequested
\* leave the camera as it was, and a mouse motion with no button held leaves
\* the camera and frame_num as they were.
C10_CameraFrame ==
    [][/\ camera' # camera =>
            \/ event'.kind = "MouseWheel"
            \/ event'.kind = "MouseMotion" /\ AnyButtonHeld
            \/ event'.kind = "Button" /\ picked'.called
       /\ event'.kind = "Button" =>
            camera' = [camera EXCEPT !.uniforms = camera'.uniforms]
       /\ event'.kind \in {"CursorMoved", "KeyA", "ControlLeft", "Resized", "RedrawRequested"} =>
            camera' = camera
       /\ event'.kind = "MouseMotion" /\ ~AnyButtonHeld =>
            camera' = camera /\ uniforms'.frame_num = uniforms.frame_num]_vars

C10_Witness ==
    /\ event.kind = "MouseMotion"
    /\ ~AnyButtonHeld
    /\ uniforms.frame_num >= 1
    /\ camera = Camera_look_at(INITIAL_DISTANCE, FOCAL_DISTANCE, VFOV_DEG, DOF_SCALE)

RECURSIVE Ancestors(_)
Ancestors(i) == IF i = 0 THEN {} ELSE {parent(i)} \cup Ancestors(parent(i))

\* the node array built from list is sound
Sound(list) ==
    Once(bvh_nodes(list), LAMBDA nodes :
        Once({i \in DOMAIN nodes : i >= FIRST_LEAF}, LAMBDA leaves :
            /\ DOMAIN nodes \subseteq 0..(BVH_LEN - 1)
            /\ Cardinality(leaves) = Len(list)
            /\ {nodes[i] : i \in leaves} = {list[j] : j \in 1..Len(list)}
            /\ \A i \in leaves : \A a \in Ancestors(i) :
                 AABB_contains(node_at(nodes, a).box, nodes[i].box)
            /\ \A j \in 1..Len(list) : AABB_contains(node_at(nodes, 0).box, list[j].box)))

\* scenes of fewer primitives than the program reaches: the first n of the list
SmallScenes == {0, 1, 2}

\* C11: in the node array built from the live primitives (after State::new and
\* after every rebuild), every primitive sits in one leaf, its box is inside the
\* box of each ancestor parent(i) = (i-1)/2 up to node 0, and the root box
\* contains every primitive's box; so it is for the scenes of 0, 1 and 2
\* primitives.
C11_BvhSound ==
    \A n \in SmallScenes \cup {Len(bvh)} : n <= Len(bvh) => Sound(SubSeq(bvh, 1, n))

C11_Witness ==
    /\ event.kind = "KeyA"
    /\ Len(bvh) = MAX_SPHERE_COUNT + Len(scene.quads) + Len(scene.triangles)
    /\ Once(bvh_nodes(bvh), LAMBDA nodes :
            /\ \E i \in DOMAIN nodes :
                  Cardinality(Ancestors(i)) > Cardinality(Ancestors(FIRST_LEAF))
            /\ node_at(nodes, 0).box = union_of(bvh))

\* C12: whatever wheel events and drags were handled, the camera's distance to
\* its target is at least the minimum distance, and that minimum is above 0.
C12_ZoomClamp ==
    /\ MIN_DISTANCE > 0
    /\ camera.distance >= MIN_DISTANCE

C12_Witness ==
    /\ event.kind = "MouseMotion"
    /\ mouse_button_pressed[2]
    /\ camera.distance = MIN_DISTANCE
    /\ camera.yaw # 0

\* C13 (as claimed): once MAX_PASSES frames were submitted since the last
\* sample reset, a render neither ticks frame_num nor writes a buffer nor
\* submits.  (Every render of SpecPasses is presented, so there frame_num is
\* the number of frames submitted since the reset.)
C13_MaxPasses ==
    [][(event'.kind = "RedrawRequested" /\ surface_configured
        /\ uniforms.frame_num >= MAX_PASSES)
       => /\ calls' = <<>>
          /\ uniforms' = uniforms
          /\ queue' = queue
          /\ buffers' = buffers]_vars

\* the press or release of button b handled last was a release
Released(b) == ~mouse_button_pressed[b]

\* C14: a button release calls get_selected_object only if the cursor is less
\* than 5 away, in x and in y, from the position recorded at that button's
\* press; a release farther away changes no sphere, not the camera and not
\* frame_num; a press records the cursor position for its own button and
\* leaves the positions recorded for the other buttons as they were.
C14_ClickTest ==
    [][(event'.kind = "Button" /\ event'.button < MOUSE_BUTTON_SLOTS) =>
        LET b == event'.button
            released == ~mouse_button_pressed'[b]
            dx == Abs(mouse_position[1] - mouse_pressed_position[b][1])
            dy == Abs(mouse_position[2] - mouse_pressed_position[b][2])
        IN /\ picked'.called => released /\ dx < 5 /\ dy < 5
           /\ (released /\ (dx >= 5 \/ dy >= 5)) =>
                /\ ~picked'.called
                /\ scene' = scene
                /\ camera' = camera
                /\ uniforms' = uniforms
           /\ ~released =>
                /\ mouse_pressed_position'[b] = mouse_position
                /\ \A o \in DOMAIN mouse_pressed_position :
                     o # b => mouse_pressed_position'[o] = mouse_pressed_position[o]
           /\ released => mouse_pressed_position' = mouse_pressed_position]_vars

\* a release 5 away in y alone, after a frame was rendered, with another
\* button's press recorded elsewhere
C14_Witness ==
    /\ event.kind = "Button"
    /\ event.button = 1
    /\ Released(1)
    /\ mouse_position[1] = mouse_pressed_position[1][1]
    /\ Abs(mouse_position[2] - mouse_pressed_position[1][2]) = 5
    /\ ~picked.called
    /\ mouse_pressed_position[0] # mouse_pressed_position[1]

\* C15: a click that hits sphere i at distance d.  Left without Ctrl: the
\* camera gets focal_distance d and dof_scale DOF_SCALE, the scene stays.  Left
\* with Ctrl: sphere i is selected, every other flag and the camera stay.  Right
\* with Ctrl: sphere i is deselected, every other flag and the camera stay.
\* Right without Ctrl: scene and camera stay.  Another button: the camera
\* stays, and all flags are cleared with Ctrl, none changed without.
C15_ClickHit ==
    [][(picked'.called /\ picked'.hit # USIZE_MAX) =>
        LET i == picked'.hit + 1
            d == picked'.dist
            b == event'.button
        IN /\ (b = 0 /\ ~ctrl_pressed) =>
                /\ camera' = [camera EXCEPT !.uniforms.focal_distance = d,
                                            !.uniforms.dof_scale = DOF_SCALE]
                /\ scene' = scene
           /\ (b = 0 /\ ctrl_pressed) =>
                /\ camera' = camera
                /\ scene' = [scene EXCEPT !.spheres[i].selected = TRUE]
           /\ (b = 1 /\ ctrl_pressed) =>
                /\ camera' = camera
                /\ scene' = [scene EXCEPT !.spheres[i].selected = FALSE]
           /\ (b = 1 /\ ~ctrl_pressed) =>
                /\ camera' = camera
                /\ scene' = scene
           /\ (b \notin {0, 1}) =>
                /\ camera' = camera
                /\ ctrl_pressed =>
                     scene' = [scene EXCEPT !.spheres =
                                 [j \in 1..Len(scene.spheres) |->
                                    [scene.spheres[j] EXCEPT !.selected = FALSE]]]
                /\ ~ctrl_pressed => scene' = scene]_vars

\* a right click with Ctrl on sphere 0 when spheres 0 and 1 were selected
C15_Witness ==
    /\ event.kind = "Button"
    /\ event.button = 1
    /\ ctrl_pressed
    /\ picked.called
    /\ picked.hit = 0
    /\ CountCalls(calls, "remove_selection") = 1
    /\ Selected(scene.spheres) = {2}

\* C16 (as claimed): a Button event the handler acts on has a button number
\* that is a valid index of mouse_button_pressed and mouse_pressed_position
\* (0, 1 or 2); every other Button event is ignored: it changes nothing and no
\* index is out of bounds.
C16_ButtonIndex ==
    [][event'.kind = "Button" =>
        /\ ~panicked'
        /\ event'.button \notin DOMAIN mouse_button_pressed =>
             /\ mouse_button_pressed' = mouse_button_pressed
             /\ mouse_pressed_position' = mouse_pressed_position
             /\ scene' = scene
             /\ camera' = camera
             /\ uniforms' = uniforms]_vars

\* C17 (as claimed): a RedrawRequested event reaches render only after a
\* resize ran surface.configure, and then uniforms.width and uniforms.height
\* are the configured width and height, each above 0 and at most
\* max_texture_dimension_2d.  (The event reaches render when surface_configured
\* is set.)
C17_RenderAfterConfigure ==
    [][(event'.kind = "RedrawRequested" /\ surface_configured) =>
        /\ surface.configured
        /\ uniforms.width = surface.width
        /\ uniforms.height = surface.height
        /\ uniforms.width \in 1..MAX_TEXTURE_DIMENSION_2D
        /\ uniforms.height \in 1..MAX_TEXTURE_DIMENSION_2D]_vars

\* C18 (as claimed): uniforms.frame_num counts the frames submitted since the
\* last sample reset.  Step by step: an event that resets the samples leaves
\* frame_num at 0, an event that submits a frame adds one to it, and any other
\* event, a render that fails with a surface error among them, leaves it as
\* it was.
C18_FrameNumCountsSubmits ==
    [][IF CountCalls(calls', "reset_samples") > 0
       THEN uniforms'.frame_num = 0
       ELSE IF CountCalls(calls', "submit") > 0
            THEN uniforms'.frame_num = uniforms.frame_num + 1
            ELSE uniforms'.frame_num = uniforms.frame_num]_vars

\* C19 (as claimed): of two frames submitted one after the other with no sample
\* reset between them, the second is drawn with the other display bind group:
\* the index frame_num % 2 it uses differs from the index the first used,
\* whatever failed render calls came between the two.
C19_BindGroupsAlternate ==
    [][(CountCalls(calls', "set_bind_group") > 0 /\ frame_bind_group # NO_FRAME)
        => frame_bind_group' # frame_bind_group]_vars

====
